---- MODULE Spec2Model ----
(***************************************************************************)
(* Model of backend/src/database/dbMigrate.ts: DatabaseMigrationManager.   *)
(*                                                                         *)
(* One namespace (schemaNames.main), its migration directory, its ledger   *)
(* table "migrations" and the migration effects committed to the database. *)
(* A run is one execution of main() -> handleMigration() ->                *)
(* runMigrationForSchema(); every await of the source is a step boundary.  *)
(* Umzug's up() is modelled by the order in which it calls the callbacks   *)
(* the source hands it: storage.executed(), then for every migration of    *)
(* the list not yet executed, in list order, up() and then                 *)
(* storage.logMigration(), stopping at the first callback that throws.     *)
(*                                                                         *)
(* File names are sequences of one-character strings, so that the regular  *)
(* expression of extractVersion and the endsWith filters are computed.     *)
(* A file content is a content id: two ids are two different utf8 texts,   *)
(* and MD5 is taken to be free of collisions on them.                      *)
(***************************************************************************)
EXTENDS Integers, Sequences, FiniteSets, TLC

(***************************************************************************)
(* Bounds of the model.                                                    *)
(***************************************************************************)
\* Runs of main() started in one behaviour.
MaxRuns == 2
\* Changes the environment makes to the migration directory in one behaviour.
MaxEdits == 2

(***************************************************************************)
(* File names                                                              *)
(***************************************************************************)
F1sql == <<"1", "-", "a", ".", "s", "q", "l">>
F01ts == <<"0", "1", "-", "b", ".", "t", "s">>
F2ts == <<"2", "-", "a", ".", "t", "s">>
F3sql == <<"3", "-", "a", ".", "s", "q", "l">>
F4js == <<"4", "-", "a", ".", "j", "s">>
F3nodash == <<"3", "a", ".", "s", "q", "l">>
F2txt == <<"2", "-", "c", ".", "t", "x", "t">>

\* The names a migration directory of the model may hold.
Names == {F1sql, F01ts, F2ts, F3sql}

\* The content ids; 0 stands for "no such file".
Contents == {1, 2}
Absent == 0

\* Statements of a migration script, in the order they are issued.
Stmts == {1, 2}

Procs == {"p1", "p2"}

(***************************************************************************)
(* Pure functions of the source                                            *)
(***************************************************************************)
Digits == {"0", "1", "2", "3", "4", "5", "6", "7", "8", "9"}

DigitVal(ch) ==
  CASE ch = "0" -> 0 [] ch = "1" -> 1 [] ch = "2" -> 2 [] ch = "3" -> 3
    [] ch = "4" -> 4 [] ch = "5" -> 5 [] ch = "6" -> 6 [] ch = "7" -> 7
    [] ch = "8" -> 8 [] ch = "9" -> 9

DigitChar(d) ==
  CASE d = 0 -> "0" [] d = 1 -> "1" [] d = 2 -> "2" [] d = 3 -> "3"
    [] d = 4 -> "4" [] d = 5 -> "5" [] d = 6 -> "6" [] d = 7 -> "7"
    [] d = 8 -> "8" [] d = 9 -> "9"

\* Length of the leading run of digits of s.
RECURSIVE LeadingDigits(_)
LeadingDigits(s) ==
  IF s = <<>> \/ Head(s) \notin Digits THEN 0 ELSE 1 + LeadingDigits(Tail(s))

\* parseInt(s, 10) of a non-empty digit string.
RECURSIVE ParseInt(_)
ParseInt(s) ==
  IF s = <<>> THEN 0
  ELSE 10 * ParseInt(SubSeq(s, 1, Len(s) - 1)) + DigitVal(s[Len(s)])

\* The decimal text of a natural number (the text pg returns for a BIGINT).
RECURSIVE ToDecimal(_)
ToDecimal(n) ==
  IF n < 10 THEN <<DigitChar(n)>> ELSE ToDecimal(n \div 10) \o <<DigitChar(n % 10)>>

\* extractVersion's null.
NullVersion == -1

\* name.match(/^(\d+)-/) ? parseInt(match[1], 10) : null
extractVersion(name) ==
  LET k == LeadingDigits(name)
  IN  IF k >= 1 /\ Len(name) > k /\ name[k + 1] = "-"
      THEN ParseInt(SubSeq(name, 1, k))
      ELSE NullVersion

endsWith(name, ext) ==
  /\ Len(name) >= Len(ext)
  /\ SubSeq(name, Len(name) - Len(ext) + 1, Len(name)) = ext

\* The first filter of getPendingMigration.
IsMigrationExt(name) ==
  \/ endsWith(name, <<".", "j", "s">>)
  \/ endsWith(name, <<".", "t", "s">>)
  \/ endsWith(name, <<".", "s", "q", "l">>)

\* crypto.createHash('md5').update(content).digest('hex') of a content id.
Md5(content) == <<"md5", content>>

(***************************************************************************)
(* State                                                                   *)
(***************************************************************************)
VARIABLES
  files,              \* the migration directory: name -> content id or Absent
  dirExists,          \* the migration directory exists
  schemaExists,       \* CREATE SCHEMA has been done
  tableExists,        \* the ledger table "migrations" exists
  ledger,             \* rows of the table "migrations"
  dbCommitted,        \* committed effects of migration statements
  pc,                 \* per process: where its run stands
  appliedMigrations,  \* per process: rows read by the SELECT of line 108
  pendingMigrations,  \* per process: result of getPendingMigration
  queue,              \* per process: migrations umzug.up() has still to run
  tx,                 \* per process: the transaction of its connection
  caught,             \* per process: what the catch of line 217 caught
  rmResult,           \* per process: how runMigrationForSchema ended
  exitCode,           \* per process: status the process exited with
  runId,              \* per process: number of its current run
  hist,               \* per process: history of the current run
  clock,              \* runs started so far
  edits,              \* changes made to the directory so far
  phase               \* when the directory was last changed

envVars == <<files, dirExists, edits, phase>>
dbVars == <<schemaExists, tableExists, ledger, dbCommitted>>
procVars == <<pc, appliedMigrations, pendingMigrations, queue, tx, caught,
              rmResult, exitCode, runId, hist, clock>>
vars == <<files, dirExists, edits, phase, schemaExists, tableExists, ledger,
          dbCommitted, pc, appliedMigrations, pendingMigrations, queue, tx,
          caught, rmResult, exitCode, runId, hist, clock>>

(***************************************************************************)
(* getPendingMigration                                                     *)
(***************************************************************************)
\* A MigrationFile: fullPath is path.join(migrationDir, name), one per name.
MigrationFile(name) == [name |-> name, version |-> extractVersion(name)]

\* The names readdir returns that pass the two filters of lines 127 and 133.
Discovered(dir) ==
  {n \in DOMAIN dir :
     dir[n] # Absent /\ IsMigrationExt(n) /\ extractVersion(n) # NullVersion}

MinVersion(S) == CHOOSE v \in {extractVersion(n) : n \in S} :
                   \A n \in S : v <= extractVersion(n)

\* The results .sort((a, b) => a.version - b.version) can give: the sort is
\* stable and readdir's order is not specified, so files of one version come
\* in any order.
RECURSIVE SortedListings(_)
SortedListings(S) ==
  IF S = {} THEN {<<>>}
  ELSE LET first == {n \in S : extractVersion(n) = MinVersion(S)}
       IN  UNION {{<<MigrationFile(n)>> \o rest :
                      rest \in SortedListings(S \ {n})} : n \in first}

\* Mutant: the loop of lines 145-152 is missing.
FirstMismatch_NoCheck(pend, i, expectedNextVersion) == 0

\* Mutant: the loop of lines 145-152 tests `>` in place of `!==`.
FirstMismatch_OnlyGaps(pend, i, expectedNextVersion) ==
  LET bad == {j \in i..Len(pend) : pend[j].version > expectedNextVersion + (j - 1)}
  IN  IF bad = {} THEN 0 ELSE CHOOSE j \in bad : \A k \in bad : j <= k

\* The index of the first pending migration that is not at its expected
\* version, 0 when there is none (the loop of lines 145-152).
RECURSIVE FirstMismatch(_, _, _)
FirstMismatch(pend, i, expectedNextVersion) ==
  IF i > Len(pend) THEN 0
  ELSE IF pend[i].version # expectedNextVersion + (i - 1) THEN i
  ELSE FirstMismatch(pend, i + 1, expectedNextVersion)

AppliedVersions(applied) == [i \in 1..Len(applied) |-> ParseInt(applied[i].version)]

Includes(seq, x) == \E i \in 1..Len(seq) : seq[i] = x

LastAppliedVersion(appliedVersions) ==
  IF appliedVersions = <<>> THEN 0 ELSE appliedVersions[Len(appliedVersions)]

\* Mutant: the filter of lines 140-142 keeps every file.
IsPendingFile_All(m, appliedVersions) == TRUE

IsPendingFile(m, appliedVersions) == ~Includes(appliedVersions, m.version)

\* Mutant: the error names the first pending file, not the offending one.
GetPendingMigration_NamesFirst(applied, allMigrations) ==
  LET appliedVersions == AppliedVersions(applied)
      expectedNextVersion == LastAppliedVersion(appliedVersions) + 1
      IsPending(m) == IsPendingFile(m, appliedVersions)
      pend == SelectSeq(allMigrations, IsPending)
      bad == FirstMismatch(pend, 1, expectedNextVersion)
  IN  IF bad = 0
      THEN [ok |-> TRUE, pending |-> pend, expected |-> 0, name |-> <<>>]
      ELSE [ok |-> FALSE, pending |-> <<>>,
            expected |-> expectedNextVersion + (bad - 1), name |-> pend[1].name]

\* Mutant: the loop counts from the version of the first pending file, not
\* from lastAppliedVersion + 1.
GetPendingMigration_RelativeCheck(applied, allMigrations) ==
  LET appliedVersions == AppliedVersions(applied)
      IsPending(m) == IsPendingFile(m, appliedVersions)
      pend == SelectSeq(allMigrations, IsPending)
      expectedNextVersion == IF pend = <<>> THEN 1 ELSE pend[1].version
      bad == FirstMismatch(pend, 1, expectedNextVersion)
  IN  IF bad = 0
      THEN [ok |-> TRUE, pending |-> pend, expected |-> 0, name |-> <<>>]
      ELSE [ok |-> FALSE, pending |-> <<>>,
            expected |-> expectedNextVersion + (bad - 1), name |-> pend[bad].name]

\* getPendingMigration on the rows read and a sorted listing: the pending
\* list, or the version-mismatch error.
GetPendingMigration(applied, allMigrations) ==
  LET appliedVersions == AppliedVersions(applied)
      expectedNextVersion == LastAppliedVersion(appliedVersions) + 1
      IsPending(m) == IsPendingFile(m, appliedVersions)
      pend == SelectSeq(allMigrations, IsPending)
      bad == FirstMismatch(pend, 1, expectedNextVersion)
  IN  IF bad = 0
      THEN [ok |-> TRUE, pending |-> pend, expected |-> 0, name |-> <<>>]
      ELSE [ok |-> FALSE, pending |-> <<>>,
            expected |-> expectedNextVersion + (bad - 1), name |-> pend[bad].name]

(***************************************************************************)
(* The ledger table                                                        *)
(***************************************************************************)
LedgerVersions == {row.version : row \in ledger}

\* Mutant: the SELECT reads another, empty table.
SelectApplied_Empty(rows) == <<>>

\* SELECT version, name, md5 FROM migrations ORDER BY version::int
RECURSIVE SelectApplied(_)
SelectApplied(rows) ==
  IF rows = {} THEN <<>>
  ELSE LET row == CHOOSE x \in rows : \A y \in rows : x.version <= y.version
       IN  <<[version |-> ToDecimal(row.version), name |-> row.name, md5 |-> row.md5]>>
             \o SelectApplied(rows \ {row})

(***************************************************************************)
(* Results, errors and the history of a run                                *)
(***************************************************************************)
NoResult == [type |-> "none", expected |-> 0, name |-> <<>>]
Returned == [type |-> "ok", expected |-> 0, name |-> <<>>]
\* Error(`Migration version mismatch: expected ${expected}, but got ${name}`)
VersionMismatch(expected, name) ==
  [type |-> "VersionMismatch", expected |-> expected, name |-> name]
\* Error(`MD5 mismatch in ${recordedName}. Was modified after applying. ...`)
Md5Mismatch(name) ==
  [type |-> "Md5Mismatch", expected |-> 0, name |-> name]
\* Error(`Applied migration missing: ${recordedName}`)
AppliedMissing(name) ==
  [type |-> "AppliedMissing", expected |-> 0, name |-> name]
\* The error up() rethrows at line 220, as umzug.up() rejects with it: umzug
\* wraps it in a MigrationError that names the migration.
MigrationFailed(name) ==
  [type |-> "MigrationFailed", expected |-> 0, name |-> name]
\* The error storage.logMigration rejects with.
LogFailed(name) ==
  [type |-> "LogFailed", expected |-> 0, name |-> name]

NoTx == [open |-> FALSE, work |-> {}]

\* History of a run: the versions whose BEGIN was issued (in order), whose
\* COMMIT succeeded, whose ROLLBACK was issued, whose ledger row the run
\* inserted; how the previous run ended; what the run repeats; the content
\* read and executed by the up() of the migration umzug.up() is handling
\* (Absent when it handles none); what existed when the run started.
NoHist == [begun |-> <<>>, committed |-> {}, rolledBack |-> {}, logged |-> {},
           prev |-> "none", repeat |-> "no", ran |-> Absent,
           pre |-> [dir |-> FALSE, schema |-> FALSE, table |-> FALSE]]

\* The effect of statement s of the script of version v, executed by run id.
Effect(id, v, s) == [run |-> id, ver |-> v, stmt |-> s]

(***************************************************************************)
(* Initial states                                                          *)
(***************************************************************************)
\* A fresh database; the directory is missing, or holds any migration files.
Init ==
  /\ dirExists \in BOOLEAN
  /\ files \in [Names -> {Absent, 1}]
  /\ (~dirExists => \A n \in Names : files[n] = Absent)
  /\ schemaExists = FALSE
  /\ tableExists = FALSE
  /\ ledger = {}
  /\ dbCommitted = {}
  /\ pc = [r \in Procs |-> "idle"]
  /\ appliedMigrations = [r \in Procs |-> <<>>]
  /\ pendingMigrations = [r \in Procs |-> <<>>]
  /\ queue = [r \in Procs |-> <<>>]
  /\ tx = [r \in Procs |-> NoTx]
  /\ caught = [r \in Procs |-> ""]
  /\ rmResult = [r \in Procs |-> NoResult]
  /\ exitCode = [r \in Procs |-> -1]
  /\ runId = [r \in Procs |-> 0]
  /\ hist = [r \in Procs |-> NoHist]
  /\ clock = 0
  /\ edits = 0
  /\ phase = "between"

(***************************************************************************)
(* The environment: migration files are added, removed and changed         *)
(***************************************************************************)
\* A change made while a run that has listed the directory is under way is
\* "during" that run; any other change is "between" runs.
Listed == \E r \in Procs : pc[r] \notin {"idle", "exited", "getPending"}

Edited ==
  /\ edits < MaxEdits
  /\ edits' = edits + 1
  /\ phase' = IF ~Listed THEN "between"
              ELSE IF phase = "quiet" THEN "during" ELSE phase

AddFile(n, c) ==
  /\ files[n] = Absent
  /\ files' = [files EXCEPT ![n] = c]
  /\ dirExists' = TRUE
  /\ Edited
  /\ UNCHANGED <<dbVars, procVars>>

RemoveFile(n) ==
  /\ files[n] # Absent
  /\ files' = [files EXCEPT ![n] = Absent]
  /\ Edited
  /\ UNCHANGED <<dirExists, dbVars, procVars>>

ChangeFile(n, c) ==
  /\ files[n] # Absent
  /\ files[n] # c
  /\ files' = [files EXCEPT ![n] = c]
  /\ Edited
  /\ UNCHANGED <<dirExists, dbVars, procVars>>

(***************************************************************************)
(* A run: main() -> handleMigration() -> runMigrationForSchema()           *)
(***************************************************************************)
FileContent(n) == IF n \in DOMAIN files THEN files[n] ELSE Absent

\* Mutant: the catch of handleMigration rethrows, and main's catch calls
\* process.exit(1).
Exits_Propagates(r, result) ==
  /\ pc' = [pc EXCEPT ![r] = "exited"]
  /\ rmResult' = [rmResult EXCEPT ![r] = result]
  /\ exitCode' = [exitCode EXCEPT ![r] = IF result.type = "ok" THEN 0 ELSE 1]

\* runMigrationForSchema ends with `result`; handleMigration logs an error
\* (its catch rethrows nothing) and main's finally calls process.exit().
Exits(r, result) ==
  /\ pc' = [pc EXCEPT ![r] = "exited"]
  /\ rmResult' = [rmResult EXCEPT ![r] = result]
  /\ exitCode' = [exitCode EXCEPT ![r] = 0]

\* How the run that process r starts sees the run r made before.
PreviousRun(r) ==
  IF pc[r] = "idle" THEN "none"
  ELSE IF rmResult[r].type = "ok" THEN "ok" ELSE "failed"

\* Mutant: the schema and the table are not created.
StartRun_NoDDL(r) ==
  /\ pc[r] \in {"idle", "exited"}
  /\ clock < MaxRuns
  /\ clock' = clock + 1
  /\ runId' = [runId EXCEPT ![r] = clock + 1]
  /\ dirExists' = TRUE
  /\ appliedMigrations' = [appliedMigrations EXCEPT ![r] = SelectApplied(ledger)]
  /\ pendingMigrations' = [pendingMigrations EXCEPT ![r] = <<>>]
  /\ queue' = [queue EXCEPT ![r] = <<>>]
  /\ tx' = [tx EXCEPT ![r] = NoTx]
  /\ caught' = [caught EXCEPT ![r] = ""]
  /\ rmResult' = [rmResult EXCEPT ![r] = NoResult]
  /\ exitCode' = [exitCode EXCEPT ![r] = -1]
  /\ hist' = [hist EXCEPT ![r] =
                [NoHist EXCEPT !.prev = PreviousRun(r),
                               !.pre = [dir |-> dirExists, schema |-> schemaExists,
                                        table |-> tableExists]]]
  /\ pc' = [pc EXCEPT ![r] = "getPending"]
  /\ UNCHANGED <<files, edits, phase, dbVars>>

\* Mutant: the table is dropped and created again by every run.
StartRun_Recreates(r) ==
  /\ pc[r] \in {"idle", "exited"}
  /\ clock < MaxRuns
  /\ clock' = clock + 1
  /\ runId' = [runId EXCEPT ![r] = clock + 1]
  /\ dirExists' = TRUE
  /\ schemaExists' = TRUE
  /\ tableExists' = TRUE
  /\ appliedMigrations' = [appliedMigrations EXCEPT ![r] = <<>>]
  /\ pendingMigrations' = [pendingMigrations EXCEPT ![r] = <<>>]
  /\ queue' = [queue EXCEPT ![r] = <<>>]
  /\ tx' = [tx EXCEPT ![r] = NoTx]
  /\ caught' = [caught EXCEPT ![r] = ""]
  /\ rmResult' = [rmResult EXCEPT ![r] = NoResult]
  /\ exitCode' = [exitCode EXCEPT ![r] = -1]
  /\ hist' = [hist EXCEPT ![r] =
                [NoHist EXCEPT !.prev = PreviousRun(r),
                               !.pre = [dir |-> dirExists, schema |-> schemaExists,
                                        table |-> tableExists]]]
  /\ pc' = [pc EXCEPT ![r] = "getPending"]
  /\ ledger' = {}
  /\ UNCHANGED <<files, edits, phase, dbCommitted>>

\* Lines 167-175: the client, mkdir -p of the migration directory, CREATE
\* SCHEMA / TABLE IF NOT EXISTS, and the SELECT of the ledger.
StartRun(r) ==
  /\ pc[r] \in {"idle", "exited"}
  /\ clock < MaxRuns
  /\ clock' = clock + 1
  /\ runId' = [runId EXCEPT ![r] = clock + 1]
  /\ dirExists' = TRUE
  /\ schemaExists' = TRUE
  /\ tableExists' = TRUE
  /\ appliedMigrations' = [appliedMigrations EXCEPT ![r] = SelectApplied(ledger)]
  /\ pendingMigrations' = [pendingMigrations EXCEPT ![r] = <<>>]
  /\ queue' = [queue EXCEPT ![r] = <<>>]
  /\ tx' = [tx EXCEPT ![r] = NoTx]
  /\ caught' = [caught EXCEPT ![r] = ""]
  /\ rmResult' = [rmResult EXCEPT ![r] = NoResult]
  /\ exitCode' = [exitCode EXCEPT ![r] = -1]
  /\ hist' = [hist EXCEPT ![r] =
                [NoHist EXCEPT !.prev = PreviousRun(r),
                               !.pre = [dir |-> dirExists, schema |-> schemaExists,
                                        table |-> tableExists]]]
  /\ pc' = [pc EXCEPT ![r] = "getPending"]
  /\ UNCHANGED <<files, edits, phase, ledger, dbCommitted>>

\* What the run repeats: "clean" when the previous run returned and no file
\* changed since that run listed the directory, "quiet" when no file changed
\* since the previous run ended.
Repeats(r) ==
  IF hist[r].prev = "none" \/ phase = "between" THEN "no"
  ELSE IF hist[r].prev = "ok" /\ phase = "quiet" THEN "clean"
  ELSE "quiet"

\* Lines 177-180: getPendingMigration, which lists the directory.
GetPending(r) ==
  /\ pc[r] = "getPending"
  /\ \E allMigrations \in SortedListings(Discovered(files)) :
       LET res == GetPendingMigration(appliedMigrations[r], allMigrations)
       IN  IF res.ok
           THEN /\ pendingMigrations' = [pendingMigrations EXCEPT ![r] = res.pending]
                /\ pc' = [pc EXCEPT ![r] = "executed"]
                /\ UNCHANGED <<rmResult, exitCode>>
           ELSE /\ Exits(r, VersionMismatch(res.expected, res.name))
                /\ UNCHANGED pendingMigrations
  /\ hist' = [hist EXCEPT ![r].repeat = Repeats(r)]
  /\ phase' = "quiet"
  /\ UNCHANGED <<files, dirExists, edits, dbVars, appliedMigrations, queue, tx,
                 caught, runId, clock>>

\* Mutant: the hashes are not compared.
RowError_NoMd5(row) ==
  IF FileContent(row.name) = Absent THEN AppliedMissing(row.name) ELSE NoResult

\* Mutant: ENOENT is swallowed.
RowError_NoEnoent(row) ==
  IF FileContent(row.name) # Absent /\ Md5(FileContent(row.name)) # row.md5
  THEN Md5Mismatch(row.name)
  ELSE NoResult

\* The check storage.executed makes of one row (lines 228-244).
RowError(row) ==
  IF FileContent(row.name) = Absent THEN AppliedMissing(row.name)
  ELSE IF Md5(FileContent(row.name)) # row.md5 THEN Md5Mismatch(row.name)
  ELSE NoResult

\* The index of the first row of `applied` whose check throws, 0 when none.
RECURSIVE FirstBadRow(_, _)
FirstBadRow(applied, i) ==
  IF i > Len(applied) THEN 0
  ELSE IF RowError(applied[i]) # NoResult THEN i
  ELSE FirstBadRow(applied, i + 1)

\* Mutant: umzug.up() takes every migration of the list as executed.
NotExecuted_None(pend, applied) == <<>>

\* umzug.up() keeps the migrations whose name storage.executed did not return.
NotExecuted(pend, applied) ==
  LET Fresh(m) == \A i \in 1..Len(applied) : applied[i].name # m.name
  IN  SelectSeq(pend, Fresh)

\* Line 280, first step of umzug.up(): storage.executed (lines 225-247).
Executed(r) ==
  /\ pc[r] = "executed"
  /\ LET bad == FirstBadRow(appliedMigrations[r], 1)
     IN  IF bad = 0
         THEN /\ queue' = [queue EXCEPT ![r] =
                             NotExecuted(pendingMigrations[r], appliedMigrations[r])]
              /\ pc' = [pc EXCEPT ![r] = "next"]
              /\ UNCHANGED <<rmResult, exitCode>>
         ELSE /\ Exits(r, RowError(appliedMigrations[r][bad]))
              /\ UNCHANGED queue
  /\ UNCHANGED <<envVars, dbVars, appliedMigrations, pendingMigrations, tx, caught,
                 runId, hist, clock>>

\* Line 188: BEGIN of the next migration of the list.
Begin(r) ==
  /\ pc[r] = "next"
  /\ queue[r] # <<>>
  /\ tx' = [tx EXCEPT ![r].open = TRUE]
  /\ hist' = [hist EXCEPT ![r].begun = Append(@, Head(queue[r]).version)]
  /\ pc' = [pc EXCEPT ![r] = "exec"]
  /\ UNCHANGED <<envVars, dbVars, appliedMigrations, pendingMigrations, queue, caught,
                 rmResult, exitCode, runId, clock>>

\* The script issues its first k statements inside the open transaction; it
\* throws at the next one unless it issued them all.
RunsStatements(r, k) ==
  LET m == Head(queue[r])
      done == {Effect(runId[r], m.version, s) : s \in {t \in Stmts : t <= k}}
  IN  /\ tx' = [tx EXCEPT ![r].work = @ \cup done]
      /\ hist' = [hist EXCEPT ![r].ran = FileContent(m.name)]
      /\ IF k = Cardinality(Stmts)
         THEN /\ pc' = [pc EXCEPT ![r] = "commit"]
              /\ UNCHANGED caught
         ELSE /\ pc' = [pc EXCEPT ![r] = "rollback"]
              /\ caught' = [caught EXCEPT ![r] = "stmt"]

\* Mutant: nothing is thrown; up() goes on to its COMMIT.
ThrowsEarly_Commits(r, cause) ==
  /\ pc' = [pc EXCEPT ![r] = "commit"]
  /\ caught' = [caught EXCEPT ![r] = cause]
  /\ UNCHANGED <<tx, hist>>

\* The try block throws before any statement is issued.
ThrowsEarly(r, cause) ==
  /\ pc' = [pc EXCEPT ![r] = "rollback"]
  /\ caught' = [caught EXCEPT ![r] = cause]
  /\ UNCHANGED <<tx, hist>>

\* Lines 191-193: a .sql file is read and sent as one batch.
ExecSql(r) ==
  /\ pc[r] = "exec"
  /\ endsWith(Head(queue[r]).name, <<".", "s", "q", "l">>)
  /\ IF FileContent(Head(queue[r]).name) = Absent
     THEN ThrowsEarly(r, "load")
     ELSE \E k \in 0..Cardinality(Stmts) : RunsStatements(r, k)
  /\ UNCHANGED <<envVars, dbVars, appliedMigrations, pendingMigrations, queue,
                 rmResult, exitCode, runId, clock>>

\* Lines 194-213: a .ts/.js file is loaded and its up(client) awaited.
ExecScript(r) ==
  /\ pc[r] = "exec"
  /\ ~endsWith(Head(queue[r]).name, <<".", "s", "q", "l">>)
  /\ IF FileContent(Head(queue[r]).name) = Absent
     THEN ThrowsEarly(r, "load")
     ELSE \/ \E cause \in {"load", "noUp"} : ThrowsEarly(r, cause)
          \/ \E k \in 0..Cardinality(Stmts) : RunsStatements(r, k)
  /\ UNCHANGED <<envVars, dbVars, appliedMigrations, pendingMigrations, queue,
                 rmResult, exitCode, runId, clock>>

\* Mutant: the COMMIT of line 215 is missing.
Commit_Omitted(r) ==
  /\ pc[r] = "commit"
  /\ hist' = [hist EXCEPT ![r].committed = @ \cup {Head(queue[r]).version}]
  /\ pc' = [pc EXCEPT ![r] = "log"]
  /\ UNCHANGED <<envVars, dbVars, appliedMigrations, pendingMigrations, queue, tx,
                 caught, rmResult, exitCode, runId, clock>>

\* Line 215: COMMIT succeeds.
Commit(r) ==
  /\ pc[r] = "commit"
  /\ dbCommitted' = dbCommitted \cup tx[r].work
  /\ tx' = [tx EXCEPT ![r] = NoTx]
  /\ hist' = [hist EXCEPT ![r].committed = @ \cup {Head(queue[r]).version}]
  /\ pc' = [pc EXCEPT ![r] = "log"]
  /\ UNCHANGED <<envVars, schemaExists, tableExists, ledger, appliedMigrations,
                 pendingMigrations, queue, caught, rmResult, exitCode, runId, clock>>

\* Line 215: COMMIT throws; the transaction is still to be ended.
CommitFails(r) ==
  /\ pc[r] = "commit"
  /\ caught' = [caught EXCEPT ![r] = "commit"]
  /\ pc' = [pc EXCEPT ![r] = "rollback"]
  /\ UNCHANGED <<envVars, dbVars, appliedMigrations, pendingMigrations, queue, tx,
                 rmResult, exitCode, runId, hist, clock>>

\* Mutant: the catch block issues COMMIT.
Rollback_Commits(r) ==
  /\ pc[r] = "rollback"
  /\ dbCommitted' = dbCommitted \cup tx[r].work
  /\ tx' = [tx EXCEPT ![r] = NoTx]
  /\ hist' = [hist EXCEPT ![r].rolledBack = @ \cup {Head(queue[r]).version}]
  /\ caught' = [caught EXCEPT ![r] = ""]
  /\ Exits(r, MigrationFailed(Head(queue[r]).name))
  /\ UNCHANGED <<envVars, schemaExists, tableExists, ledger, appliedMigrations,
                 pendingMigrations, queue, runId, clock>>

\* Mutant: the catch block does not rethrow; umzug.up() goes on with the
\* next migration.
Rollback_Swallows(r) ==
  /\ pc[r] = "rollback"
  /\ tx' = [tx EXCEPT ![r] = NoTx]
  /\ hist' = [hist EXCEPT ![r].rolledBack = @ \cup {Head(queue[r]).version}]
  /\ caught' = [caught EXCEPT ![r] = ""]
  /\ queue' = [queue EXCEPT ![r] = Tail(@)]
  /\ pc' = [pc EXCEPT ![r] = "next"]
  /\ UNCHANGED <<envVars, dbVars, appliedMigrations, pendingMigrations, rmResult,
                 exitCode, runId, clock>>

\* Mutant: the catch block rethrows without issuing ROLLBACK.
Rollback_NoRollback(r) ==
  /\ pc[r] = "rollback"
  /\ hist' = [hist EXCEPT ![r].rolledBack = @ \cup {Head(queue[r]).version}]
  /\ caught' = [caught EXCEPT ![r] = ""]
  /\ Exits(r, MigrationFailed(Head(queue[r]).name))
  /\ UNCHANGED <<envVars, dbVars, appliedMigrations, pendingMigrations, queue, tx,
                 runId, clock>>

\* Lines 217-221: ROLLBACK, then the error is rethrown; umzug.up() rejects
\* with it and runs no further migration.
Rollback(r) ==
  /\ pc[r] = "rollback"
  /\ tx' = [tx EXCEPT ![r] = NoTx]
  /\ hist' = [hist EXCEPT ![r].rolledBack = @ \cup {Head(queue[r]).version},
                          ![r].ran = Absent]
  /\ caught' = [caught EXCEPT ![r] = ""]
  /\ Exits(r, MigrationFailed(Head(queue[r]).name))
  /\ UNCHANGED <<envVars, dbVars, appliedMigrations, pendingMigrations, queue,
                 runId, clock>>

\* The row logMigration inserts; run_at is NOW(), the number of the run.
LedgerRow(r, name) ==
  [version |-> extractVersion(name), name |-> name,
   md5 |-> Md5(FileContent(name)), run_at |-> runId[r]]

\* Mutant: logMigration returns without inserting.
LogMigration_Skips(r) ==
  /\ pc[r] = "log"
  /\ queue' = [queue EXCEPT ![r] = Tail(@)]
  /\ pc' = [pc EXCEPT ![r] = "next"]
  /\ UNCHANGED <<envVars, dbVars, appliedMigrations, pendingMigrations, tx, caught,
                 rmResult, exitCode, runId, hist, clock>>

\* Mutant: the table has no primary key; the INSERT of a version that is
\* in the table adds a second row.
LogMigration_NoPrimaryKey(r) ==
  /\ pc[r] = "log"
  /\ LET name == Head(queue[r]).name
         version == extractVersion(name)
     IN  /\ version # NullVersion
         /\ FileContent(name) # Absent
         /\ ledger' = ledger \cup {LedgerRow(r, name)}
         /\ hist' = [hist EXCEPT ![r].logged = @ \cup {version}]
         /\ queue' = [queue EXCEPT ![r] = Tail(@)]
         /\ pc' = [pc EXCEPT ![r] = "next"]
  /\ UNCHANGED <<envVars, schemaExists, tableExists, dbCommitted, appliedMigrations,
                 pendingMigrations, tx, caught, rmResult, exitCode, runId, clock>>

\* Lines 248-258: storage.logMigration hashes the file and inserts the row.
LogMigration(r) ==
  /\ pc[r] = "log"
  /\ LET name == Head(queue[r]).name
         version == extractVersion(name)
     IN  IF version = NullVersion
         THEN /\ queue' = [queue EXCEPT ![r] = Tail(@)]
              /\ pc' = [pc EXCEPT ![r] = "next"]
              /\ UNCHANGED <<ledger, hist, rmResult, exitCode>>
         ELSE /\ FileContent(name) # Absent
              /\ version \notin LedgerVersions
              /\ ledger' = ledger \cup {LedgerRow(r, name)}
              /\ hist' = [hist EXCEPT ![r].logged = @ \cup {version},
                                      ![r].ran = Absent]
              /\ queue' = [queue EXCEPT ![r] = Tail(@)]
              /\ pc' = [pc EXCEPT ![r] = "next"]
              /\ UNCHANGED <<rmResult, exitCode>>
  /\ UNCHANGED <<envVars, schemaExists, tableExists, dbCommitted, appliedMigrations,
                 pendingMigrations, tx, caught, runId, clock>>

\* Mutant: the rejection of logMigration is swallowed; umzug.up() goes on
\* with the next migration.
LogMigrationFails_Swallowed(r) ==
  /\ pc[r] = "log"
  /\ extractVersion(Head(queue[r]).name) # NullVersion
  /\ queue' = [queue EXCEPT ![r] = Tail(@)]
  /\ pc' = [pc EXCEPT ![r] = "next"]
  /\ UNCHANGED <<envVars, dbVars, appliedMigrations, pendingMigrations, tx, caught,
                 rmResult, exitCode, runId, hist, clock>>

\* Lines 253-257: getFileMd5 throws (the file is gone), or the INSERT throws
\* (the version is in the table already, or the database fails).
LogMigrationFails(r) ==
  /\ pc[r] = "log"
  /\ LET name == Head(queue[r]).name
         version == extractVersion(name)
     IN  /\ version # NullVersion
         /\ Exits(r, LogFailed(name))
  /\ hist' = [hist EXCEPT ![r].ran = Absent]
  /\ UNCHANGED <<envVars, dbVars, appliedMigrations, pendingMigrations, queue, tx,
                 caught, runId, clock>>

\* Lines 259-270: storage.unlogMigration deletes the row of the version of
\* `name`. Umzug calls it from down(); a run calls umzug.up() only (line
\* 280), so that no step of a run is this action.
UnlogMigration(r, name) ==
  /\ extractVersion(name) # NullVersion
  /\ ledger' = {row \in ledger : row.version # extractVersion(name)}
  /\ UNCHANGED <<envVars, schemaExists, tableExists, dbCommitted, procVars>>

\* Lines 280-283 and 293-315: umzug.up() resolves, COMMIT, RESET search_path,
\* shutdown.
Finish(r) ==
  /\ pc[r] = "next"
  /\ queue[r] = <<>>
  /\ dbCommitted' = dbCommitted \cup tx[r].work
  /\ tx' = [tx EXCEPT ![r] = NoTx]
  /\ Exits(r, Returned)
  /\ UNCHANGED <<envVars, schemaExists, tableExists, ledger, appliedMigrations,
                 pendingMigrations, queue, caught, runId, hist, clock>>

Step(r) ==
  \/ StartRun(r)
  \/ GetPending(r)
  \/ Executed(r)
  \/ Begin(r)
  \/ ExecSql(r)
  \/ ExecScript(r)
  \/ Commit(r)
  \/ CommitFails(r)
  \/ Rollback(r)
  \/ LogMigration(r)
  \/ LogMigrationFails(r)
  \/ Finish(r)

Edit ==
  \/ \E n \in Names, c \in Contents : AddFile(n, c)
  \/ \E n \in Names : RemoveFile(n)
  \/ \E n \in Names, c \in Contents : ChangeFile(n, c)

(***************************************************************************)
(* Spec: runs of main() one after the other, the directory changing at any *)
(* time.                                                                   *)
(***************************************************************************)
Next == Edit \/ Step("p1")

Spec == Init /\ [][Next]_vars

(***************************************************************************)
(* SpecBetween: runs of main() one after the other, the directory changing *)
(* only while no run is under way (the usage the tool is meant for: a      *)
(* deployment step runs it on a checked-out tree).                         *)
(***************************************************************************)
BetweenRuns == \A r \in Procs : pc[r] \in {"idle", "exited"}

EditBetweenRuns == BetweenRuns /\ Edit

BetweenNext == EditBetweenRuns \/ Step("p1")

SpecBetween == Init /\ [][BetweenNext]_vars

(***************************************************************************)
(* SpecPending: getPendingMigration on any ledger and any directory        *)
(***************************************************************************)
\* Largest version a ledger of SpecPending holds.
MaxApplied == 3

PendingNames == Names \cup {F4js, F3nodash, F2txt}

\* Any set of versions, as rows of the ledger table.
PendingLedgers ==
  {{[version |-> v, name |-> ToDecimal(v) \o <<"-", "a", ".", "s", "q", "l">>,
     md5 |-> Md5(1), run_at |-> 0] : v \in V} : V \in SUBSET (1..MaxApplied)}

PendingInit ==
  /\ dirExists = TRUE
  /\ files \in [PendingNames -> {Absent, 1}]
  /\ schemaExists = TRUE
  /\ tableExists = TRUE
  /\ ledger \in PendingLedgers
  /\ dbCommitted = {}
  /\ pc = [r \in Procs |-> IF r = "p1" THEN "getPending" ELSE "idle"]
  /\ appliedMigrations = [r \in Procs |->
                            IF r = "p1" THEN SelectApplied(ledger) ELSE <<>>]
  /\ pendingMigrations = [r \in Procs |-> <<>>]
  /\ queue = [r \in Procs |-> <<>>]
  /\ tx = [r \in Procs |-> NoTx]
  /\ caught = [r \in Procs |-> ""]
  /\ rmResult = [r \in Procs |-> NoResult]
  /\ exitCode = [r \in Procs |-> -1]
  /\ runId = [r \in Procs |-> IF r = "p1" THEN 1 ELSE 0]
  /\ hist = [r \in Procs |-> NoHist]
  /\ clock = 1
  /\ edits = 0
  /\ phase = "between"

PendingNext == GetPending("p1")

SpecPending == PendingInit /\ [][PendingNext]_vars

(***************************************************************************)
(* Vocabulary of the properties                                            *)
(***************************************************************************)
\* The versions of the rows a run read, and the last of them (0 when none).
VersionsRead(r) ==
  {ParseInt(appliedMigrations[r][i].version) : i \in 1..Len(appliedMigrations[r])}

LastRead(r) ==
  IF VersionsRead(r) = {} THEN 0
  ELSE CHOOSE v \in VersionsRead(r) : \A w \in VersionsRead(r) : w <= v

\* The migration files of the directory whose version the run did not read.
NotApplied(r) == {n \in Discovered(files) : extractVersion(n) \notin VersionsRead(r)}

\* They are the versions LastRead+1, LastRead+2, ..., one file each.
Contiguous(r) ==
  {extractVersion(n) : n \in NotApplied(r)}
    = (LastRead(r) + 1)..(LastRead(r) + Cardinality(NotApplied(r)))

SeqNames(pend) == {pend[i].name : i \in 1..Len(pend)}

\* The run of r has changed nothing in the database.
LedgerAsRead(r) ==
  /\ Cardinality(ledger) = Len(appliedMigrations[r])
  /\ \A i \in 1..Len(appliedMigrations[r]) :
       \E row \in ledger : /\ row.version = ParseInt(appliedMigrations[r][i].version)
                           /\ row.name = appliedMigrations[r][i].name
                           /\ row.md5 = appliedMigrations[r][i].md5
NothingExecuted(r) ==
  /\ hist[r].begun = <<>>
  /\ hist[r].committed = {}
  /\ hist[r].logged = {}
  /\ tx[r] = NoTx
  /\ \A t \in dbCommitted : t.run # runId[r]
  /\ LedgerAsRead(r)

(***************************************************************************)
(* C1: getPendingMigration either returns the discovered files whose       *)
(* version is not in the ledger, as a list whose versions are max(L)+1,    *)
(* max(L)+2, ... without gap or repetition (possibly empty), or throws the *)
(* version-mismatch error.                                                 *)
(***************************************************************************)
C1_PendingContiguousOrThrows ==
  pc["p1"] # "getPending" =>
    \/ /\ pc["p1"] = "exited"
       /\ rmResult["p1"].type = "VersionMismatch"
       /\ pendingMigrations["p1"] = <<>>
    \/ /\ pc["p1"] = "executed"
       /\ SeqNames(pendingMigrations["p1"]) = NotApplied("p1")
       /\ Len(pendingMigrations["p1"]) = Cardinality(NotApplied("p1"))
       /\ \A i \in 1..Len(pendingMigrations["p1"]) :
            /\ pendingMigrations["p1"][i].version = LastRead("p1") + i
            /\ pendingMigrations["p1"][i].version
                 = extractVersion(pendingMigrations["p1"][i].name)

\* A list of two files is returned for a ledger that does not start at 1.
C1_Witness ==
  /\ pc["p1"] = "executed"
  /\ Len(pendingMigrations["p1"]) = 2
  /\ VersionsRead("p1") = {2}

(***************************************************************************)
(* C2: when the files not yet applied do not form a contiguous run from    *)
(* lastApplied+1, runMigrationForSchema fails with the version-mismatch    *)
(* error that names the first expected version not found and the first     *)
(* offending file; no transaction was begun and no ledger row inserted.    *)
(* (phase = "quiet": the directory is as the run listed it.)               *)
(***************************************************************************)
\* The error names file f and version e: the files below f are at their
\* versions, and f is the first that is not (it has another version than
\* e, or it is the second file of its version).
FirstOffence(r, e, f) ==
  LET below == {g \in NotApplied(r) : extractVersion(g) < extractVersion(f)}
      next == LastRead(r) + Cardinality(below) + 1
  IN  /\ f \in NotApplied(r)
      /\ {extractVersion(g) : g \in below} = (LastRead(r) + 1)..(next - 1)
      /\ \/ e = next /\ extractVersion(f) # e
         \/ /\ e = next + 1
            /\ extractVersion(f) = next
            /\ \E g \in NotApplied(r) \ {f} : extractVersion(g) = next

C2_GapFailsBeforeAnything ==
  \A r \in Procs :
    (pc[r] = "exited" /\ phase = "quiet" /\ ~Contiguous(r)) =>
      /\ rmResult[r].type = "VersionMismatch"
      /\ FirstOffence(r, rmResult[r].expected, rmResult[r].name)
      /\ NothingExecuted(r)

\* Applied = {1}, files 1 and 3: expected 2, but got 3-a.sql.
C2_Witness ==
  /\ pc["p1"] = "exited"
  /\ phase = "quiet"
  /\ VersionsRead("p1") = {1}
  /\ Discovered(files) = {F1sql, F3sql}
  /\ rmResult["p1"] = VersionMismatch(2, F3sql)

(***************************************************************************)
(* C3, as claimed: whenever the file of a ledger entry has another hash    *)
(* than the recorded one, the run fails with the MD5-mismatch error,       *)
(* whatever other files the directory holds, and nothing is executed.      *)
(***************************************************************************)
Missing(row) == FileContent(row.name) = Absent
Tampered(row) == ~Missing(row) /\ Md5(FileContent(row.name)) # row.md5

C3_Original ==
  \A r \in Procs :
    (/\ pc[r] = "exited"
     /\ phase = "quiet"
     /\ \E i \in 1..Len(appliedMigrations[r]) : Tampered(appliedMigrations[r][i])) =>
      /\ rmResult[r].type = "Md5Mismatch"
      /\ NothingExecuted(r)

(***************************************************************************)
(* C3, amended: whenever the file X of a ledger entry has another hash     *)
(* than the recorded one, the run fails before any pending migration       *)
(* executes and leaves the ledger unchanged, whether or not a migration is *)
(* pending. The error is the version mismatch when the files not yet       *)
(* applied are not contiguous; otherwise it is the error of the first      *)
(* ledger entry, in version order, whose file is missing or modified: the  *)
(* MD5 mismatch naming X when that entry is X's.                           *)
(***************************************************************************)
C3_TamperFailsBeforeAnything ==
  \A r \in Procs :
    \A i \in 1..Len(appliedMigrations[r]) :
      (pc[r] = "exited" /\ phase = "quiet" /\ Tampered(appliedMigrations[r][i])) =>
        /\ NothingExecuted(r)
        /\ rmResult[r].type \in {"VersionMismatch", "Md5Mismatch", "AppliedMissing"}
        /\ rmResult[r].type = "VersionMismatch" <=> ~Contiguous(r)
        /\ (/\ Contiguous(r)
            /\ \A j \in 1..(i - 1) : /\ ~Missing(appliedMigrations[r][j])
                                     /\ ~Tampered(appliedMigrations[r][j]))
             => rmResult[r] = Md5Mismatch(appliedMigrations[r][i].name)

\* The tamper error with a migration pending, and with none.
C3_Witness ==
  /\ pc["p1"] = "exited"
  /\ phase = "quiet"
  /\ rmResult["p1"] = Md5Mismatch(F1sql)
  /\ pendingMigrations["p1"] # <<>>

(***************************************************************************)
(* C4, as claimed: whenever the file of a ledger entry is not in the       *)
(* directory, the run fails with the error "Applied migration missing"     *)
(* and nothing is executed.                                                *)
(***************************************************************************)
C4_Original ==
  \A r \in Procs :
    (/\ pc[r] = "exited"
     /\ phase = "quiet"
     /\ \E i \in 1..Len(appliedMigrations[r]) : Missing(appliedMigrations[r][i])) =>
      /\ rmResult[r].type = "AppliedMissing"
      /\ NothingExecuted(r)

(***************************************************************************)
(* C4, amended: whenever the file X of a ledger entry is not in the        *)
(* directory, the run fails before any pending migration executes and adds *)
(* no ledger row. The error is the version mismatch when the files not yet *)
(* applied are not contiguous; otherwise it is the error of the first      *)
(* ledger entry, in version order, whose file is missing or modified:      *)
(* "Applied migration missing" naming X when that entry is X's.            *)
(***************************************************************************)
C4_MissingFailsBeforeAnything ==
  \A r \in Procs :
    \A i \in 1..Len(appliedMigrations[r]) :
      (pc[r] = "exited" /\ phase = "quiet" /\ Missing(appliedMigrations[r][i])) =>
        /\ NothingExecuted(r)
        /\ rmResult[r].type # "ok"
        /\ ~Contiguous(r) => rmResult[r].type = "VersionMismatch"
        /\ (/\ Contiguous(r)
            /\ \A j \in 1..(i - 1) : /\ ~Missing(appliedMigrations[r][j])
                                     /\ ~Tampered(appliedMigrations[r][j]))
             => rmResult[r] = AppliedMissing(appliedMigrations[r][i].name)

\* The missing-file error with a migration pending.
C4_Witness ==
  /\ pc["p1"] = "exited"
  /\ phase = "quiet"
  /\ rmResult["p1"] = AppliedMissing(F1sql)
  /\ pendingMigrations["p1"] # <<>>

(***************************************************************************)
(* C5: when migration N fails after its BEGIN, its transaction is rolled   *)
(* back: no effect of N is committed, no ledger entry for N exists, and    *)
(* every migration that committed earlier in the run has a smaller         *)
(* version, stays committed and keeps its ledger entry.                    *)
(***************************************************************************)
CommittedBy(id, v) == \A s \in Stmts : Effect(id, v, s) \in dbCommitted
LoggedBy(id, v) == \E row \in ledger : row.version = v /\ row.run_at = id

C5_AtomicPerMigration ==
  \A r \in Procs :
    \A N \in hist[r].rolledBack :
      /\ tx[r] = NoTx
      /\ \A t \in dbCommitted : ~(t.run = runId[r] /\ t.ver = N)
      /\ N \notin LedgerVersions
      /\ \A v \in hist[r].committed :
           /\ v < N
           /\ CommittedBy(runId[r], v)
           /\ LoggedBy(runId[r], v)

\* Migration 2 was rolled back after migration 1 had committed.
C5_Witness ==
  /\ hist["p1"].rolledBack = {2}
  /\ hist["p1"].committed = {1}

(***************************************************************************)
(* C6: once migration N has failed in a run, no migration of a greater     *)
(* version is begun in that run, N is not begun again, and                 *)
(* runMigrationForSchema ends with the failure of N.                       *)
(***************************************************************************)
C6_HaltOnFailure ==
  \A r \in Procs :
    \A N \in hist[r].rolledBack :
      /\ pc[r] = "exited"
      /\ rmResult[r].type = "MigrationFailed"
      /\ extractVersion(rmResult[r].name) = N
      /\ hist[r].begun # <<>>
      /\ hist[r].begun[Len(hist[r].begun)] = N
      /\ \A i \in 1..(Len(hist[r].begun) - 1) : hist[r].begun[i] < N

\* Migration 1 failed and migrations 2 and 3 were still to run.
C6_Witness ==
  /\ hist["p1"].rolledBack = {1}
  /\ Len(queue["p1"]) = 3

(***************************************************************************)
(* C7: in a run the migrations are begun one at a time in increasing       *)
(* version order: when the next one is begun, every one begun before has   *)
(* committed and has its ledger row, and the open transaction holds the    *)
(* work of the last one begun only.                                        *)
(***************************************************************************)
C7_OneAtATimeInOrder ==
  \A r \in Procs :
    LET b == hist[r].begun
    IN  /\ \A i \in 1..Len(b) :
             /\ b[i] = LastRead(r) + i
             /\ i < Len(b) => /\ b[i] \in hist[r].committed
                              /\ CommittedBy(runId[r], b[i])
                              /\ LoggedBy(runId[r], b[i])
        /\ \A t \in tx[r].work : b # <<>> /\ t.run = runId[r] /\ t.ver = b[Len(b)]
        /\ tx[r].open => b # <<>> /\ b[Len(b)] \notin hist[r].committed

\* The third migration of a run is in progress.
C7_Witness ==
  /\ Len(hist["p1"].begun) = 3
  /\ pc["p1"] = "exec"

(***************************************************************************)
(* C8, as claimed: a run that follows another run, no file having changed  *)
(* between the two, has an empty pending set, begins no transaction and    *)
(* leaves the ledger as it found it.                                       *)
(***************************************************************************)
C8_Original ==
  \A r \in Procs :
    hist[r].repeat \in {"quiet", "clean"} =>
      /\ pendingMigrations[r] = <<>>
      /\ NothingExecuted(r)

(***************************************************************************)
(* C8, amended: a run that follows a run that completed successfully, no   *)
(* file having been added, removed or changed since that first run listed  *)
(* the directory, has an empty pending set (getPendingMigration returns    *)
(* the empty list), begins no transaction and leaves the ledger as the     *)
(* first run left it.                                                      *)
(***************************************************************************)
C8_IdempotentAfterSuccess ==
  \A r \in Procs :
    hist[r].repeat = "clean" =>
      /\ pendingMigrations[r] = <<>>
      /\ queue[r] = <<>>
      /\ NothingExecuted(r)
      /\ rmResult[r].type \notin {"VersionMismatch", "MigrationFailed", "LogFailed"}

\* The second run has ended; the first had applied two migrations.
C8_Witness ==
  /\ hist["p1"].repeat = "clean"
  /\ pc["p1"] = "exited"
  /\ Len(appliedMigrations["p1"]) = 2

(***************************************************************************)
(* C9: every ledger row was inserted by a run after that run committed the *)
(* migration of the row; a run inserts no row for a migration it rolled    *)
(* back or did not begin.                                                  *)
(***************************************************************************)
C9_LoggedOnlyAfterCommit ==
  /\ \A row \in ledger : CommittedBy(row.run_at, row.version)
  /\ \A r \in Procs :
       /\ hist[r].logged \subseteq hist[r].committed
       /\ \A N \in hist[r].rolledBack : ~LoggedBy(runId[r], N)
       /\ \A row \in ledger :
            row.run_at = runId[r] =>
              /\ row.version \in hist[r].committed
              /\ \E i \in 1..Len(hist[r].begun) : hist[r].begun[i] = row.version

\* A run inserted a row and then rolled the next migration back.
C9_Witness ==
  /\ LoggedBy(runId["p1"], 1)
  /\ hist["p1"].rolledBack = {2}

(***************************************************************************)
(* C10, as claimed: over any sequence of runs, also of runs that end in a  *)
(* failure of a migration or of the ledger insert, the script of a version *)
(* is executed and committed at most once.                                 *)
(***************************************************************************)
CommitRuns(v) == {t.run : t \in {u \in dbCommitted : u.ver = v}}

C10_Original ==
  \A t \in dbCommitted : Cardinality(CommitRuns(t.ver)) <= 1

(***************************************************************************)
(* C10, amended: over any sequence of non-overlapping runs, a run begins   *)
(* each version at most once, and a version whose ledger row has been      *)
(* inserted is never begun, executed or committed again by a later run; a  *)
(* version is committed a second time only by a run that follows a run     *)
(* which committed it and ended before inserting its ledger row.           *)
(***************************************************************************)
C10_NeverAgainOnceLogged ==
  /\ \A row \in ledger :
       /\ \A t \in dbCommitted : t.ver = row.version => t.run <= row.run_at
       /\ \A r \in Procs :
            /\ \A t \in tx[r].work : t.ver = row.version => t.run <= row.run_at
            /\ \A i \in 1..Len(hist[r].begun) :
                 hist[r].begun[i] = row.version => runId[r] <= row.run_at
  /\ \A r \in Procs :
       \A i, j \in 1..Len(hist[r].begun) :
         hist[r].begun[i] = hist[r].begun[j] => i = j
  /\ \A t, u \in dbCommitted :
       (t.ver = u.ver /\ t.run < u.run) => ~LoggedBy(t.run, t.ver)

\* The second run executes migration 2; migration 1 has its row of run 1.
C10_Witness ==
  /\ runId["p1"] = 2
  /\ LoggedBy(1, 1)
  /\ CommittedBy(2, 2)
  /\ CommitRuns(1) = {1}

(***************************************************************************)
(* C11: a run that returns has inserted exactly one ledger row per pending *)
(* migration, carrying the file's name, next to the rows it read; it began *)
(* and committed exactly the pending migrations, each once and in order.   *)
(* A run whose applied files all match their rows and whose files not yet  *)
(* applied are contiguous passes both validations: it ends by returning or *)
(* with the failure of a migration or of a ledger insert.                  *)
(***************************************************************************)
PendingVersions(r) ==
  {pendingMigrations[r][i].version : i \in 1..Len(pendingMigrations[r])}

RunEffects(r) == {t \in dbCommitted : t.run = runId[r]}

RowsReadKept(r) ==
  \A i \in 1..Len(appliedMigrations[r]) :
    \E row \in ledger : /\ row.version = ParseInt(appliedMigrations[r][i].version)
                        /\ row.name = appliedMigrations[r][i].name
                        /\ row.md5 = appliedMigrations[r][i].md5
                        /\ row.run_at < runId[r]

C11_SuccessfulRunResult ==
  \A r \in Procs :
    LET P == pendingMigrations[r]
    IN  /\ (pc[r] = "exited" /\ rmResult[r].type = "ok") =>
             /\ LedgerVersions = VersionsRead(r) \cup PendingVersions(r)
             /\ Cardinality(ledger) = Len(appliedMigrations[r]) + Len(P)
             /\ RowsReadKept(r)
             /\ \A i \in 1..Len(P) :
                  \E row \in ledger : /\ row.version = P[i].version
                                      /\ row.name = P[i].name
                                      /\ row.run_at = runId[r]
             /\ hist[r].begun = [i \in 1..Len(P) |-> P[i].version]
             /\ hist[r].committed = PendingVersions(r)
             /\ hist[r].logged = PendingVersions(r)
             /\ hist[r].rolledBack = {}
             /\ RunEffects(r) = {Effect(runId[r], v, s) :
                                   v \in PendingVersions(r), s \in Stmts}
        /\ (/\ pc[r] = "exited"
            /\ phase = "quiet"
            /\ Contiguous(r)
            /\ FirstBadRow(appliedMigrations[r], 1) = 0) =>
             rmResult[r].type \in {"ok", "MigrationFailed", "LogFailed"}

\* Files 1-a.sql and 2-a.ts, an empty ledger: the run returns, rows 1 and 2.
C11_Witness ==
  /\ pc["p1"] = "exited"
  /\ rmResult["p1"].type = "ok"
  /\ appliedMigrations["p1"] = <<>>
  /\ SeqNames(pendingMigrations["p1"]) = {F1sql, F2ts}
  /\ LedgerVersions = {1, 2}

(***************************************************************************)
(* C12: a run has at most one transaction open, and only between the      *)
(* BEGIN of a migration and its COMMIT or ROLLBACK; every migration begun  *)
(* before the last one was ended by its COMMIT and by no ROLLBACK; the     *)
(* open transaction holds work of the last migration begun only; no        *)
(* transaction is open once the run has ended, in success or in failure.   *)
(***************************************************************************)
C12_TransactionPerMigration ==
  \A r \in Procs :
    LET b == hist[r].begun
        ended == hist[r].committed \cup hist[r].rolledBack
    IN  /\ tx[r].open <=> pc[r] \in {"exec", "commit", "rollback"}
        /\ tx[r].open => b # <<>> /\ b[Len(b)] \notin ended
        /\ ~tx[r].open => /\ tx[r].work = {}
                          /\ \A i \in 1..Len(b) : b[i] \in ended
        /\ hist[r].committed \cap hist[r].rolledBack = {}
        /\ ended \subseteq {b[i] : i \in 1..Len(b)}
        /\ \A i \in 1..(Len(b) - 1) : b[i] \in hist[r].committed /\ b[i] # b[Len(b)]
        /\ \A t \in tx[r].work : t.run = runId[r] /\ t.ver = b[Len(b)]
        /\ pc[r] = "exited" => tx[r] = NoTx

\* A run ended in the failure of its third migration: three BEGINs, two
\* COMMITs, one ROLLBACK.
C12_Witness ==
  /\ pc["p1"] = "exited"
  /\ rmResult["p1"].type = "MigrationFailed"
  /\ Len(hist["p1"].begun) = 3
  /\ Cardinality(hist["p1"].committed) = 2
  /\ Cardinality(hist["p1"].rolledBack) = 1
  /\ tx["p1"] = NoTx

(***************************************************************************)
(* C13: whatever runMigrationForSchema ends with (its return, the version  *)
(* mismatch, the tamper or missing-file error, the failure of a migration  *)
(* or of a ledger insert), the process exits with status 0; it has no exit *)
(* status before the run has ended.                                        *)
(***************************************************************************)
C13_FailureExitsZero ==
  \A r \in Procs :
    /\ pc[r] = "exited" =>
         /\ exitCode[r] = 0
         /\ rmResult[r].type \in {"ok", "VersionMismatch", "Md5Mismatch",
                                  "AppliedMissing", "MigrationFailed", "LogFailed"}
    /\ pc[r] # "exited" => exitCode[r] = -1 /\ rmResult[r] = NoResult

\* A run whose ledger insert failed, after one migration was applied and
\* logged, has exited with status 0.
C13_Witness ==
  /\ pc["p1"] = "exited"
  /\ rmResult["p1"].type = "LogFailed"
  /\ hist["p1"].logged # {}
  /\ exitCode["p1"] = 0

(***************************************************************************)
(* C14, as claimed: whenever the directory holds two migration files of    *)
(* one version, whatever the ledger holds, getPendingMigration throws.     *)
(***************************************************************************)
\* Two migration files of the set S have the same version.
Tie(S) == \E f, g \in S : f # g /\ extractVersion(f) = extractVersion(g)

C14_Original ==
  (pc["p1"] # "getPending" /\ Tie(Discovered(files))) =>
    /\ pc["p1"] = "exited"
    /\ rmResult["p1"].type = "VersionMismatch"

(***************************************************************************)
(* C14, amended: whenever the directory holds two migration files of one   *)
(* version and that version is not in the ledger, getPendingMigration      *)
(* throws the version-mismatch error and returns no pending list: the      *)
(* error names one of the two files, or a file of a smaller version. Two   *)
(* files of a version that is in the ledger are both left out of the       *)
(* pending list and make no error.                                         *)
(***************************************************************************)
C14_PendingTiesFail ==
  pc["p1"] # "getPending" =>
    /\ Tie(NotApplied("p1")) =>
         /\ pc["p1"] = "exited"
         /\ rmResult["p1"].type = "VersionMismatch"
         /\ pendingMigrations["p1"] = <<>>
         /\ rmResult["p1"].name \in NotApplied("p1")
         /\ \E f, g \in NotApplied("p1") :
              /\ f # g
              /\ extractVersion(f) = extractVersion(g)
              /\ extractVersion(rmResult["p1"].name) <= extractVersion(f)
    /\ (Tie(Discovered(files)) /\ ~Tie(NotApplied("p1")) /\ Contiguous("p1")) =>
         /\ pc["p1"] = "executed"
         /\ \A f, g \in Discovered(files) :
              (f # g /\ extractVersion(f) = extractVersion(g)) =>
                f \notin SeqNames(pendingMigrations["p1"])

\* 1-a.sql and 01-b.ts with version 1 not applied: expected 2, but got the
\* file that the sort put second.
C14_Witness ==
  /\ pc["p1"] = "exited"
  /\ VersionsRead("p1") = {}
  /\ {F1sql, F01ts} \subseteq Discovered(files)
  /\ rmResult["p1"] = VersionMismatch(2, F01ts)

(***************************************************************************)
(* SpecConcurrent: two processes run main() against the same namespace at  *)
(* the same time, each on its own connection; the directory is not changed.*)
(***************************************************************************)
ConcurrentNext == Step("p1") \/ Step("p2")

SpecConcurrent == Init /\ [][ConcurrentNext]_vars

(***************************************************************************)
(* C15: also when two runs interleave, the ledger holds at most one row    *)
(* per version after every step; a logMigration whose version is in the    *)
(* ledger already fails, ends its run and leaves the ledger as it was.     *)
(***************************************************************************)
UniqueVersions == \A x, y \in ledger : x.version = y.version => x = y

DuplicateAppendFails ==
  \A r \in Procs :
    (/\ pc[r] = "log"
     /\ pc'[r] # "log"
     /\ extractVersion(Head(queue[r]).name) \in LedgerVersions) =>
      /\ ledger' = ledger
      /\ pc'[r] = "exited"
      /\ rmResult'[r] = LogFailed(Head(queue[r]).name)

C15_LedgerUnique == [][UniqueVersions' /\ DuplicateAppendFails]_vars

\* Both runs committed migration 1; the row is the one p1 inserted and the
\* insert of p2 failed.
C15_Witness ==
  /\ rmResult["p2"] = LogFailed(F1sql)
  /\ LoggedBy(runId["p1"], 1)
  /\ CommittedBy(runId["p2"], 1)
  /\ Cardinality(ledger) = 1

(***************************************************************************)
(* C18, as claimed: when two runs that both have migration N pending       *)
(* interleave, the script of N is executed and committed by at most one of *)
(* them.                                                                   *)
(***************************************************************************)
\* Run q started after run r, read a ledger without N, and r has inserted
\* the row of N: r was under way when q started.
Interleaved(r, q, N) ==
  /\ runId[r] > 0
  /\ runId[r] < runId[q]
  /\ N \in PendingVersions(r) \cap PendingVersions(q)
  /\ LoggedBy(runId[r], N)

C18_Original ==
  \A r, q \in Procs :
    \A N \in PendingVersions(r) \cap PendingVersions(q) :
      Interleaved(r, q, N) =>
        ~(CommittedBy(runId[r], N) /\ CommittedBy(runId[q], N))

(***************************************************************************)
(* C18, amended: when two runs that both have migration N pending          *)
(* interleave, at most one of them inserts the ledger row of N; a run that *)
(* committed N and finds the row of the other run fails at its own insert, *)
(* begins no later migration and ends with that failure. The script of N   *)
(* may have been executed and committed by both runs, since each commits   *)
(* the transaction of N before it inserts the row.                         *)
(***************************************************************************)
C18_DuplicateRunStopsAtInsert ==
  \A q \in Procs :
    \A N \in hist[q].committed :
      (\E row \in ledger : row.version = N /\ row.run_at # runId[q]) =>
        /\ ~LoggedBy(runId[q], N)
        /\ pc[q] \in {"log", "exited"}
        /\ hist[q].begun[Len(hist[q].begun)] = N
        /\ pc[q] = "exited" => /\ rmResult[q].type = "LogFailed"
                               /\ extractVersion(rmResult[q].name) = N

\* Both runs had migration 2 pending and committed it; p2 inserted the row
\* and p1 failed at its insert.
C18_Witness ==
  /\ Interleaved("p2", "p1", 2)
  /\ CommittedBy(runId["p1"], 2)
  /\ CommittedBy(runId["p2"], 2)
  /\ rmResult["p1"] = LogFailed(F2ts)

(***************************************************************************)
(* C16: when the module of a pending .ts/.js migration exports no callable *)
(* `up`, the run is in the catch block with the transaction of that        *)
(* migration open and empty; its next step rolls the transaction back and  *)
(* ends the run with the failure that names the migration: nothing is      *)
(* committed, no ledger row is inserted, no further migration is begun.    *)
(***************************************************************************)
\* The state after the `else` branch of line 200 threw.
Malformed(r) == caught[r] = "noUp"

MalformedIsCaught(r) ==
  Malformed(r) =>
    /\ pc[r] = "rollback"
    /\ ~endsWith(Head(queue[r]).name, <<".", "s", "q", "l">>)
    /\ tx[r] = [open |-> TRUE, work |-> {}]
    /\ hist[r].begun[Len(hist[r].begun)] = Head(queue[r]).version
    /\ Head(queue[r]).version \notin LedgerVersions

MalformedFailsRun(r) ==
  (Malformed(r) /\ pc'[r] # pc[r]) =>
    LET m == Head(queue[r])
    IN  /\ pc'[r] = "exited"
        /\ rmResult'[r] = MigrationFailed(m.name)
        /\ tx'[r] = NoTx
        /\ dbCommitted' = dbCommitted
        /\ ledger' = ledger
        /\ \A t \in dbCommitted' : ~(t.run = runId[r] /\ t.ver = m.version)
        /\ hist'[r].begun = hist[r].begun
        /\ m.version \in hist'[r].rolledBack
        /\ m.version \notin hist'[r].committed \cup hist'[r].logged

C16_MalformedRollsBack ==
  [][\A r \in Procs : MalformedIsCaught(r)' /\ MalformedFailsRun(r)]_vars

\* 2-a.ts exports no `up`; 1-a.sql was applied before it in the same run
\* and 3-a.sql is still to run.
C16_Witness ==
  /\ Malformed("p1")
  /\ Head(queue["p1"]).name = F2ts
  /\ hist["p1"].logged = {1}
  /\ Len(queue["p1"]) = 2

(***************************************************************************)
(* C17: the md5 of the ledger row a run inserts is the md5 of the content  *)
(* that run read and executed in the transaction of the row's migration,   *)
(* also when the file is changed while the run is under way.               *)
(***************************************************************************)
C17_FingerprintOfExecuted ==
  [][\A r \in Procs :
       \A row \in ledger' \ ledger :
         row.run_at = runId[r] => row.md5 = Md5(hist[r].ran)]_vars

(***************************************************************************)
(* C19, as claimed: when a run ends with the version mismatch, the ledger  *)
(* rows and the migration effects are as they were before the run, and so  *)
(* is the existence of the schema, of the ledger table and of the          *)
(* migration directory.                                                    *)
(***************************************************************************)
SequenceViolation(r) == pc[r] = "exited" /\ rmResult[r].type = "VersionMismatch"

C19_Original ==
  \A r \in Procs :
    SequenceViolation(r) =>
      /\ NothingExecuted(r)
      /\ schemaExists = hist[r].pre.schema
      /\ tableExists = hist[r].pre.table
      /\ dirExists = hist[r].pre.dir

(***************************************************************************)
(* C19, amended: when a run ends with the version mismatch, it has begun   *)
(* no transaction, and the ledger rows and the migration effects are as    *)
(* they were before the run; the schema, the ledger table and the          *)
(* migration directory exist, whether or not they did before the run.      *)
(***************************************************************************)
C19_GapAbortKeepsData ==
  \A r \in Procs :
    SequenceViolation(r) =>
      /\ NothingExecuted(r)
      /\ schemaExists
      /\ tableExists
      /\ dirExists
      /\ hist[r].pre.table = FALSE => ledger = {}

\* The first run against a fresh database, the directory holding 2-a.ts
\* only: expected 1; the schema and the table have been created.
C19_Witness ==
  /\ SequenceViolation("p1")
  /\ rmResult["p1"] = VersionMismatch(1, F2ts)
  /\ hist["p1"].pre = [dir |-> TRUE, schema |-> FALSE, table |-> FALSE]
  /\ schemaExists
  /\ tableExists

(***************************************************************************)
(* C20: no step of a run, on its success path or on a failure path,        *)
(* deletes or changes a ledger row: every row of the ledger before a step  *)
(* is a row of the ledger after it, and no step is an unlogMigration that  *)
(* removes a row.                                                          *)
(***************************************************************************)
C20_LedgerAppendOnly ==
  [][/\ ledger \subseteq ledger'
     /\ \A r \in Procs, n \in Names :
          ~(ledger' # ledger /\ UnlogMigration(r, n))]_vars

\* The second run has added the row of migration 2 to the row of the first
\* run, and has then rolled migration 3 back.
C20_Witness ==
  /\ runId["p1"] = 2
  /\ LoggedBy(1, 1)
  /\ LoggedBy(2, 2)
  /\ hist["p1"].rolledBack = {3}
  /\ Cardinality(ledger) = 2

(***************************************************************************)
(* C21: starting from an empty ledger, after any sequence of runs that do  *)
(* not overlap, successful or failed, with migration files added, removed  *)
(* or changed between the runs, the versions of the ledger are exactly     *)
(* 1, 2, ..., k for some k >= 0, one row each: the ledger has no gap and   *)
(* does not start above 1.                                                 *)
(***************************************************************************)
C21_LedgerHasNoGap ==
  /\ LedgerVersions = 1..Cardinality(LedgerVersions)
  /\ Cardinality(ledger) = Cardinality(LedgerVersions)

\* The first run logged migration 1 and failed; files were changed; the
\* second run logged migrations 2 and 3.
C21_Witness ==
  /\ LedgerVersions = {1, 2, 3}
  /\ LoggedBy(1, 1)
  /\ ~LoggedBy(1, 2)
  /\ LoggedBy(2, 3)
  /\ edits > 0
  /\ rmResult["p1"].type = "ok"

====
